---- MODULE Spec2Model ----
(***************************************************************************)
(* Reviewer-assignment and evaluation-aggregation workflow of the         *)
(* incubation backend (src/src/routes/applications.ts and                 *)
(* src/src/routes/evaluations.ts), with the tables it reads and writes    *)
(* (new_application, application_reviewers, application_evaluations,      *)
(* user_profiles) and the constraints the migrations put on them.         *)
(***************************************************************************)
EXTENDS Integers, FiniteSets, Sequences, TLC

(* ---------------------------------------------------------------------- *)
(* Bounds of the model                                                    *)
(* ---------------------------------------------------------------------- *)
NumReviewers == 2          \* reviewer profiles in the workflow specification
NumQuotaReviewers == 6     \* reviewer profiles in the invite-only specifications
MaxTicks == 1              \* times the clock of the workflow specification advances
NumProcs == 2              \* concurrent invite requests in flight
NumScores == 1             \* distinct score payloads of an evaluation
NumEvalReviewers == 1      \* accepted reviewers in the evaluation-submission specification
NumEvalScores == 2         \* distinct score payloads in the evaluation-submission specification
MaxScoreLen == 4           \* characters of a score sent as a string
NumSweepReviewers == 2     \* reviewer profiles in the sweep specifications
MaxDays == 4               \* days the clock of the sweep specifications advances
NumDrafts == 1             \* draft rows in the draft specification
NumTokens == 2             \* raw resume tokens
MaxDraftPeriods == 1       \* expiry periods the clock of the draft specification spans
NumRaceReviewers == 3      \* reviewer profiles in the invite-and-respond specification
NumSubmissions == 2        \* applications submitted in the submission specification

(* ---------------------------------------------------------------------- *)
(* Program constants                                                      *)
(* ---------------------------------------------------------------------- *)
REVIEWER_INVITE_EXPIRE_DAYS == 2
RESUME_TOKEN_EXPIRY_DAYS == 30
MaxReviewersPerApplication == 5
AcceptedThreshold == 2
MaxScore == 10
MaxDecimals == 2

\* the step of the clock of the workflow specification, in days
ClockStep == REVIEWER_INVITE_EXPIRE_DAYS + 1

(* Identifiers.  Application 1 exists; application 0 is a well-formed id   *)
(* that matches no row.  User 0 is an authenticated profile whose role is  *)
(* not reviewer; NoUser is a request without a valid identity.             *)
Apps == {1}
MissingApp == 0
AppIds == Apps \cup {MissingApp}
NonReviewer == 0
NoUser == -1
AllReviewers == 1..(IF NumReviewers > NumQuotaReviewers THEN NumReviewers ELSE NumQuotaReviewers)
Users == {NonReviewer} \cup AllReviewers
Procs == 1..NumProcs
Scores == 1..NumScores

VARIABLES
  new_application,          \* application id -> status
  application_reviewers,    \* set of assignment rows
  application_evaluations,  \* set of evaluation rows
  user_profiles,            \* ids of the profiles whose role is reviewer
  now,                      \* the wall clock, in days
  last,                     \* the request that completed last and its HTTP status
  inflight,                 \* per process: the request it is executing
  application_data          \* application id -> the other columns of new_application

vars == <<new_application, application_reviewers, application_evaluations,
          user_profiles, now, last, inflight, application_data>>

NoTime == -1

(* ---------------------------------------------------------------------- *)
(* Store queries                                                          *)
(* ---------------------------------------------------------------------- *)

\* .from("application_reviewers").eq("application_id", a).eq("reviewer_id", r)
AssignmentsOf(rows, a, r) ==
  {x \in rows : x.application_id = a /\ x.reviewer_id = r}

\* .from("application_reviewers").eq("application_id", a).eq("invite_status", "accepted")
AcceptedRows(rows, a) ==
  {x \in rows : x.application_id = a /\ x.invite_status = "accepted"}

\* .from("application_evaluations").eq("application_id", a).eq("reviewer_id", r)
EvaluationsOf(evals, a, r) ==
  {e \in evals : e.application_id = a /\ e.reviewer_id = r}

\* gen_random_uuid(): a fresh primary key; the n-th row of a pair gets <<a, r, n>>
FreshId(rows, a, r) ==
  <<a, r, Cardinality({x \in rows : x.application_id = a /\ x.reviewer_id = r}) + 1>>

\* a response without content of interest
NoBody == {}

\* the last completed operation and what its caller got back: the HTTP status,
\* for a response to an invite the identity it came from, for the sweep the
\* number of rows it reports as updated and the time it took as now, and the
\* content of the response (for the sweep, the rows whose expiry it has
\* notified to the managers), and what became of the e-mail the operation
\* sent, "none" when it sent none
Response(op, code) ==
  [op |-> op, code |-> code, user |-> NoUser, updated |-> 0, at |-> NoTime,
   body |-> NoBody, mail |-> "none"]

\* what sendReviewerInviteEmail, sendManagerReviewerResponseEmail and
\* sendResumeLinkEmail return: { success: true }, or { success: false } when
\* the credentials are missing or the transport throws
MailOutcomes == {"sent", "failed"}

\* a handler that lets a failed send end the request as a server error
AfterSend_Throws(code, emailResult) ==
  IF emailResult = "failed" THEN 500 ELSE code

\* the status a handler answers with after the send: the helpers catch every
\* error and the handlers at most log emailResult
AfterSend(code, emailResult) ==
  code

\* the response of a request that has sent an e-mail
Notified(response, emailResult) ==
  [response EXCEPT !.code = AfterSend(response.code, emailResult),
                   !.mail = emailResult]

Idle == [pc |-> "idle", app |-> MissingApp, reviewer |-> NonReviewer]

\* a row without resume token
NoHash == 0

\* the columns of a submitted application other than its status: the fields of
\* the form (three of them), and no resume token
SubmittedData ==
  [fields |-> [team_name |-> "submitted", has_proof_of_concept |-> "Yes",
               email |-> "s@x"],
   resume_token_hash |-> NoHash, resume_token_expiry |-> NoTime, updated_at |-> NoTime]

(* ---------------------------------------------------------------------- *)
(* Constraints of the application_reviewers table                         *)
(* ---------------------------------------------------------------------- *)

\* check_max_reviewers(): TRUE when the BEFORE INSERT trigger raises
check_max_reviewers(rows, a) ==
  Cardinality({x \in rows : x.application_id = a}) >= MaxReviewersPerApplication

\* UNIQUE(application_id, reviewer_id): TRUE when the insert violates it
AssignmentUniqueViolation(rows, a, r) ==
  AssignmentsOf(rows, a, r) # {}

\* a table without the constraint
EvaluationUniqueViolation_None(evals, a, r) ==
  FALSE

\* UNIQUE(application_id, reviewer_id) of application_evaluations
EvaluationUniqueViolation(evals, a, r) ==
  EvaluationsOf(evals, a, r) # {}

\* the row written by .insert({application_id, reviewer_id, invite_status: "pending", invited_at})
NewAssignment(rows, a, r, t) ==
  [id |-> FreshId(rows, a, r), application_id |-> a, reviewer_id |-> r,
   invite_status |-> "pending", invited_at |-> t, responded_at |-> NoTime]

(* ---------------------------------------------------------------------- *)
(* POST /api/applications/:id/invite-reviewer                             *)
(* ---------------------------------------------------------------------- *)

\* the application lookup and the status test; 0 when the handler goes on
InviteApplicationCode(apps, a) ==
  IF a \notin DOMAIN apps THEN 404
  ELSE IF apps[a] # "pending" THEN 400
  ELSE 0

\* the lookup of the profile with role reviewer
InviteReviewerCode(profiles, r) ==
  IF r \notin profiles THEN 400 ELSE 0

\* the lookup of an existing assignment of the pair
InviteExistingCode(rows, a, r) ==
  IF AssignmentsOf(rows, a, r) # {} THEN 409 ELSE 0

\* HTTP status of the checks that precede the insert; 0 when all of them pass
InvitePrecheck(apps, profiles, rows, a, r) ==
  IF InviteApplicationCode(apps, a) # 0 THEN InviteApplicationCode(apps, a)
  ELSE IF InviteReviewerCode(profiles, r) # 0 THEN InviteReviewerCode(profiles, r)
  ELSE InviteExistingCode(rows, a, r)

\* HTTP status of the insert: any insertError is answered with 500
InviteInsertCode(triggerRaises, uniqueViolated) ==
  IF triggerRaises \/ uniqueViolated THEN 500 ELSE 201

InviteReviewer(a, r) ==
  LET pre == InvitePrecheck(new_application, user_profiles, application_reviewers, a, r)
      code == IF pre # 0 THEN pre
              ELSE InviteInsertCode(check_max_reviewers(application_reviewers, a),
                                    AssignmentUniqueViolation(application_reviewers, a, r))
  IN /\ application_reviewers' =
          IF code = 201
          THEN application_reviewers \cup {NewAssignment(application_reviewers, a, r, now)}
          ELSE application_reviewers
     /\ IF code = 201
        THEN \E emailResult \in MailOutcomes :
               last' = Notified(Response("invite", code), emailResult)
        ELSE last' = Response("invite", code)
     /\ UNCHANGED <<application_data,
                    new_application, application_evaluations, user_profiles, now, inflight>>

(* ---------------------------------------------------------------------- *)
(* POST /api/applications/:id/reviewer-respond                            *)
(* ---------------------------------------------------------------------- *)

\* a response stored as a further row of the pair instead of an update
RespondUpdate_Append(rows, a, u, accept, t) ==
  IF AssignmentsOf(rows, a, u) = {} THEN rows
  ELSE rows \cup {[id |-> FreshId(rows, a, u), application_id |-> a, reviewer_id |-> u,
                   invite_status |-> IF accept THEN "accepted" ELSE "rejected",
                   invited_at |-> t, responded_at |-> t]}

\* .update({invite_status, responded_at}).eq("application_id", a).eq("reviewer_id", u)
RespondUpdate(rows, a, u, accept, t) ==
  {IF x.application_id = a /\ x.reviewer_id = u
   THEN [x EXCEPT !.invite_status = IF accept THEN "accepted" ELSE "rejected",
                  !.responded_at = t]
   ELSE x : x \in rows}

\* the threshold test passing on the first acceptance
EnoughAccepted_One(rows, a) ==
  Cardinality(AcceptedRows(rows, a)) >= 1

\* acceptedRows && acceptedRows.length >= 2
EnoughAccepted(rows, a) ==
  Cardinality(AcceptedRows(rows, a)) >= AcceptedThreshold

\* .from("new_application").update({status}).eq("id", a)
SetStatus(apps, a, s) ==
  [x \in DOMAIN apps |-> IF x = a THEN s ELSE apps[x]]

RespondToInvite(a, u, accept) ==
  IF u = NoUser
  THEN /\ last' = Response("respond", 401)
       /\ UNCHANGED <<application_data,
                      new_application, application_reviewers, application_evaluations,
                      user_profiles, now, inflight>>
  ELSE LET rows == RespondUpdate(application_reviewers, a, u, accept, now)
       IN /\ application_reviewers' = rows
          /\ new_application' =
               IF accept /\ EnoughAccepted(rows, a)
               THEN SetStatus(new_application, a, "under_review")
               ELSE new_application
          \* the managers are notified when one of them has an address
          /\ \E emailResult \in MailOutcomes \cup {"none"} :
               last' = Notified([Response("respond", 200) EXCEPT !.user = u], emailResult)
          /\ UNCHANGED <<application_data,
                         application_evaluations, user_profiles, now, inflight>>

(* ---------------------------------------------------------------------- *)
(* expirePendingReviewerInvites                                           *)
(* ---------------------------------------------------------------------- *)

\* the filter with .lte("invited_at", cutoffIso)
ExpiredRows_Inclusive(rows, cutoff) ==
  {x \in rows : x.invite_status = "pending" /\ x.invited_at <= cutoff}

\* the filter without .eq("invite_status", "pending")
ExpiredRows_AnyStatus(rows, cutoff) ==
  {x \in rows : x.invited_at < cutoff}

\* .eq("invite_status", "pending").lt("invited_at", cutoffIso)
ExpiredRows(rows, cutoff) ==
  {x \in rows : x.invite_status = "pending" /\ x.invited_at < cutoff}

\* an update of every row invited before the cutoff, pending or not
ExpireUpdate_AnyStatus(rows, cutoff, t) ==
  {IF x.invited_at < cutoff
   THEN [x EXCEPT !.invite_status = "rejected", !.responded_at = t]
   ELSE x : x \in rows}

\* .update({invite_status: "rejected", responded_at: now}) on the same filter
ExpireUpdate(rows, cutoff, t) ==
  {IF x \in ExpiredRows(rows, cutoff)
   THEN [x EXCEPT !.invite_status = "rejected", !.responded_at = t]
   ELSE x : x \in rows}

\* what a run that took startedAt as now returns: the count of the rows its
\* update returned, each of which it has notified to the managers
SweepResponse(updated, startedAt) ==
  [Response("sweep", 0) EXCEPT !.updated = Cardinality(updated),
                               !.body = {x.id : x \in updated},
                               !.at = startedAt]

\* the outcomes of the notifications of a run: none without an updated row
\* or without a manager address, else all sent, or one of them failed
SweepMail(updated) ==
  IF updated = {} THEN {"none"} ELSE MailOutcomes \cup {"none"}

expirePendingReviewerInvites ==
  LET cutoff == now - REVIEWER_INVITE_EXPIRE_DAYS
      pendingRows == ExpiredRows(application_reviewers, cutoff)
  IN /\ application_reviewers' =
          IF pendingRows = {} THEN application_reviewers
          ELSE ExpireUpdate(application_reviewers, cutoff, now)
     /\ \E emailResult \in SweepMail(pendingRows) :
          last' = Notified(SweepResponse(pendingRows, now), emailResult)
     /\ UNCHANGED <<application_data,
                    new_application, application_evaluations, user_profiles, now, inflight>>

\* the wall clock advances past the expiry period of the invites sent so far
Tick ==
  /\ now < MaxTicks * ClockStep
  /\ now' = now + ClockStep
  /\ last' = Response("tick", 0)
  /\ UNCHANGED <<application_data,
                 new_application, application_reviewers, application_evaluations,
                 user_profiles, inflight>>

(* ---------------------------------------------------------------------- *)
(* POST /api/evaluations and PUT /api/evaluations/application/:id         *)
(* ---------------------------------------------------------------------- *)

\* the assignment check without the test of invite_status
EvaluationPrecheck_AnyAssignment(rows, a, u, scoresOk) ==
  LET assignment == AssignmentsOf(rows, a, u)
  IN IF u = NoUser THEN 401
     ELSE IF ~scoresOk THEN 400
     ELSE IF Cardinality(assignment) > 1 THEN 500
     ELSE IF assignment = {} THEN 403
     ELSE 0

\* HTTP status of the request validation and of the assignment check that
\* both handlers run before writing; 0 when the reviewer may write
EvaluationPrecheck(rows, a, u, scoresOk) ==
  LET assignment == AssignmentsOf(rows, a, u)
  IN IF u = NoUser THEN 401
     ELSE IF ~scoresOk THEN 400
     ELSE IF Cardinality(assignment) > 1 THEN 500
     ELSE IF assignment = {} THEN 403
     ELSE IF \E x \in assignment : x.invite_status # "accepted" THEN 403
     ELSE 0

\* the row written by .insert(payload)
NewEvaluation(evals, a, u, score) ==
  [id |-> FreshId(evals, a, u), application_id |-> a, reviewer_id |-> u, score |-> score]

\* router.post("/"): insert only, no completion check
CreateEvaluation(a, u, scoresOk, score) ==
  LET pre == EvaluationPrecheck(application_reviewers, a, u, scoresOk)
      code == IF pre # 0 THEN pre
              ELSE IF EvaluationUniqueViolation(application_evaluations, a, u) THEN 409
              ELSE 201
  IN /\ application_evaluations' =
          IF code = 201
          THEN application_evaluations \cup {NewEvaluation(application_evaluations, a, u, score)}
          ELSE application_evaluations
     /\ last' = Response("create", code)
     /\ UNCHANGED <<application_data,
                    new_application, application_reviewers, user_profiles, now, inflight>>

\* an upsert that inserts whether or not the pair has a row
RunUpsert_InsertOnly(evals, existing, a, u, score) ==
  evals \cup {NewEvaluation(evals, a, u, score)}

\* runUpsert: update the existing row by id, or insert
RunUpsert(evals, existing, a, u, score) ==
  IF existing # {}
  THEN {IF e.id \in {x.id : x \in existing} THEN [e EXCEPT !.score = score] ELSE e : e \in evals}
  ELSE evals \cup {NewEvaluation(evals, a, u, score)}

\* the completion test satisfied by any evaluation
CompletionCondition_AnyEvaluation(acceptedCount, evalCount) ==
  acceptedCount > 0 /\ evalCount >= 1

\* acceptedCount > 0 && evalCount >= acceptedCount
CompletionCondition(acceptedCount, evalCount) ==
  acceptedCount > 0 /\ evalCount >= acceptedCount

\* the completion check that follows a successful upsert
CompletionCheck(apps, rows, evals, a) ==
  LET acceptedCount == Cardinality(AcceptedRows(rows, a))
      uniqueReviewerIds == {e.reviewer_id : e \in {x \in evals : x.application_id = a}}
      evalCount == Cardinality(uniqueReviewerIds)
  IN IF CompletionCondition(acceptedCount, evalCount)
     THEN SetStatus(apps, a, "evaluated")
     ELSE apps

\* message: existing ? "Evaluation updated successfully" : "Evaluation created successfully"
UpsertMessage(existing) ==
  IF existing # {} THEN {"Evaluation updated successfully"}
  ELSE {"Evaluation created successfully"}

\* router.put("/application/:applicationId")
UpsertEvaluation(a, u, scoresOk, score) ==
  LET pre == EvaluationPrecheck(application_reviewers, a, u, scoresOk)
      found == EvaluationsOf(application_evaluations, a, u)
      \* .maybeSingle(): several matching rows give PGRST116, which the handler tolerates
      existing == IF Cardinality(found) = 1 THEN found ELSE {}
      code == IF pre # 0 THEN pre
              ELSE IF existing = {} /\ EvaluationUniqueViolation(application_evaluations, a, u)
                   THEN 409
              ELSE 200
      evals == IF code = 200
               THEN RunUpsert(application_evaluations, existing, a, u, score)
               ELSE application_evaluations
  IN /\ application_evaluations' = evals
     /\ new_application' =
          IF code = 200
          THEN CompletionCheck(new_application, application_reviewers, evals, a)
          ELSE new_application
     /\ last' = IF code = 200
                THEN [Response("upsert", code) EXCEPT !.body = UpsertMessage(existing)]
                ELSE Response("upsert", code)
     /\ UNCHANGED <<application_data, application_reviewers, user_profiles, now, inflight>>

(* ---------------------------------------------------------------------- *)
(* The workflow specification: every handler runs to completion           *)
(* ---------------------------------------------------------------------- *)

Init ==
  /\ new_application = [a \in Apps |-> "pending"]
  /\ application_reviewers = {}
  /\ application_evaluations = {}
  /\ user_profiles = 1..NumReviewers
  /\ now = 0
  /\ last = Response("none", 0)
  /\ application_data = [a \in Apps |-> SubmittedData]
  /\ inflight = [p \in Procs |-> Idle]

Callers == user_profiles \cup {NonReviewer, NoUser}

Next ==
  \/ \E a \in AppIds, r \in user_profiles \cup {NonReviewer} : InviteReviewer(a, r)
  \/ \E a \in Apps, u \in Callers, accept \in BOOLEAN : RespondToInvite(a, u, accept)
  \/ expirePendingReviewerInvites
  \/ \E a \in Apps, u \in Callers, ok \in BOOLEAN, sc \in Scores :
        CreateEvaluation(a, u, ok, sc)
  \/ \E a \in Apps, u \in Callers, ok \in BOOLEAN, sc \in Scores :
        UpsertEvaluation(a, u, ok, sc)
  \/ Tick

Spec == Init /\ [][Next]_vars

(* ---------------------------------------------------------------------- *)
(* Concurrent invite requests: a handler gives up control at every store  *)
(* round-trip, and the BEFORE INSERT trigger of one request counts the    *)
(* rows committed so far, not the row another request is about to insert  *)
(* ---------------------------------------------------------------------- *)

Finish(p, code) ==
  /\ inflight' = [inflight EXCEPT ![p] = Idle]
  /\ last' = Response("invite", code)

Goto(p, pc) ==
  /\ inflight' = [inflight EXCEPT ![p].pc = pc]
  /\ UNCHANGED last

\* the request arrives and the handler selects the application
InviteBegin(p, a, r) ==
  /\ inflight[p].pc = "idle"
  /\ LET code == InviteApplicationCode(new_application, a)
     IN IF code # 0
        THEN /\ last' = Response("invite", code)
             /\ UNCHANGED inflight
        ELSE /\ inflight' = [inflight EXCEPT ![p] = [pc |-> "reviewer", app |-> a, reviewer |-> r]]
             /\ UNCHANGED last
  /\ UNCHANGED <<application_data,
                 new_application, application_reviewers, application_evaluations,
                 user_profiles, now>>

InviteSelectReviewer(p) ==
  /\ inflight[p].pc = "reviewer"
  /\ LET code == InviteReviewerCode(user_profiles, inflight[p].reviewer)
     IN IF code # 0 THEN Finish(p, code) ELSE Goto(p, "existing")
  /\ UNCHANGED <<application_data,
                 new_application, application_reviewers, application_evaluations,
                 user_profiles, now>>

InviteSelectExisting(p) ==
  /\ inflight[p].pc = "existing"
  /\ LET code == InviteExistingCode(application_reviewers, inflight[p].app, inflight[p].reviewer)
     IN IF code # 0 THEN Finish(p, code) ELSE Goto(p, "trigger")
  /\ UNCHANGED <<application_data,
                 new_application, application_reviewers, application_evaluations,
                 user_profiles, now>>

\* the insert statement starts: enforce_max_reviewers runs check_max_reviewers
InviteTrigger(p) ==
  /\ inflight[p].pc = "trigger"
  /\ IF check_max_reviewers(application_reviewers, inflight[p].app)
     THEN Finish(p, InviteInsertCode(TRUE, FALSE))
     ELSE Goto(p, "insert")
  /\ UNCHANGED <<application_data,
                 new_application, application_reviewers, application_evaluations,
                 user_profiles, now>>

\* the row reaches the table, where the unique index admits or refuses it
InviteInsert(p) ==
  /\ inflight[p].pc = "insert"
  /\ LET a == inflight[p].app
         r == inflight[p].reviewer
         code == InviteInsertCode(FALSE, AssignmentUniqueViolation(application_reviewers, a, r))
     IN /\ application_reviewers' =
             IF code = 201
             THEN application_reviewers \cup {NewAssignment(application_reviewers, a, r, now)}
             ELSE application_reviewers
        /\ inflight' = [inflight EXCEPT ![p] = Idle]
        /\ IF code = 201
           THEN \E emailResult \in MailOutcomes :
                  last' = Notified(Response("invite", code), emailResult)
           ELSE last' = Response("invite", code)
  /\ UNCHANGED <<application_data,
                 new_application, application_evaluations, user_profiles, now>>

InitInvite ==
  /\ new_application = [a \in Apps |-> "pending"]
  /\ application_reviewers = {}
  /\ application_evaluations = {}
  /\ user_profiles = 1..NumQuotaReviewers
  /\ now = 0
  /\ last = Response("none", 0)
  /\ application_data = [a \in Apps |-> SubmittedData]
  /\ inflight = [p \in Procs |-> Idle]

NextInvite ==
  \/ \E p \in Procs, a \in AppIds, r \in user_profiles \cup {NonReviewer} : InviteBegin(p, a, r)
  \/ \E p \in Procs : InviteSelectReviewer(p)
  \/ \E p \in Procs : InviteSelectExisting(p)
  \/ \E p \in Procs : InviteTrigger(p)
  \/ \E p \in Procs : InviteInsert(p)

SpecInvite == InitInvite /\ [][NextInvite]_vars

(* ---------------------------------------------------------------------- *)
(* The scenario of the specification: R1..R5 are invited, R1 and R2       *)
(* accept, R3 declines, R1 and R2 submit their evaluations through the    *)
(* upsert endpoint; the clock may advance in between, no sweep runs       *)
(* ---------------------------------------------------------------------- *)

ScenarioApp == CHOOSE a \in Apps : TRUE
ScenarioReviewers == 1..MaxReviewersPerApplication

StatusOfInvite(r) ==
  IF AssignmentsOf(application_reviewers, ScenarioApp, r) = {} THEN "none"
  ELSE (CHOOSE x \in AssignmentsOf(application_reviewers, ScenarioApp, r) : TRUE).invite_status

ScenarioInvite(r) ==
  /\ StatusOfInvite(r) = "none"
  /\ InviteReviewer(ScenarioApp, r)

ScenarioRespond(r, accept) ==
  /\ \A q \in ScenarioReviewers : StatusOfInvite(q) # "none"
  /\ StatusOfInvite(r) = "pending"
  /\ \A q \in 1..(r - 1) : StatusOfInvite(q) # "pending"
  /\ RespondToInvite(ScenarioApp, r, accept)

ScenarioSubmit(r, sc) ==
  /\ StatusOfInvite(3) = "rejected"
  /\ EvaluationsOf(application_evaluations, ScenarioApp, r) = {}
  /\ UpsertEvaluation(ScenarioApp, r, TRUE, sc)

InitScenario ==
  /\ new_application = [a \in Apps |-> "pending"]
  /\ application_reviewers = {}
  /\ application_evaluations = {}
  /\ user_profiles = ScenarioReviewers
  /\ now = 0
  /\ last = Response("none", 0)
  /\ application_data = [a \in Apps |-> SubmittedData]
  /\ inflight = [p \in Procs |-> Idle]

NextScenario ==
  \/ \E r \in ScenarioReviewers : ScenarioInvite(r)
  \/ \E r \in {1, 2} : ScenarioRespond(r, TRUE)
  \/ ScenarioRespond(3, FALSE)
  \/ \E r \in {1, 2}, sc \in Scores : ScenarioSubmit(r, sc)
  \/ Tick

SpecScenario == InitScenario /\ [][NextScenario]_vars

(* ---------------------------------------------------------------------- *)
(* Properties                                                             *)
(* ---------------------------------------------------------------------- *)

\* the pair (a, u) has an assignment whose invite_status is accepted
HasAccepted(a, u) ==
  \E x \in application_reviewers :
    x.application_id = a /\ x.reviewer_id = u /\ x.invite_status = "accepted"

\* C4: an evaluation row is created for (application, reviewer) only while the
\* pair has an accepted assignment; a well-formed creation attempt (POST or PUT)
\* by a reviewer without one -- no assignment, pending or rejected -- is answered
\* 403 Forbidden and changes neither the evaluations nor the application status.
C4_EvaluationNeedsAcceptedAssignment ==
  [][ /\ \A e \in application_evaluations' :
           e.id \notin {x.id : x \in application_evaluations}
             => HasAccepted(e.application_id, e.reviewer_id)
      /\ \A a \in Apps, u \in Users, sc \in Scores :
           ((CreateEvaluation(a, u, TRUE, sc) \/ UpsertEvaluation(a, u, TRUE, sc))
              /\ ~HasAccepted(a, u))
             => /\ last'.code = 403
                /\ UNCHANGED <<application_evaluations, new_application>>
    ]_vars

\* an evaluation exists, and the last request was an evaluation submission
\* refused with 403 while its sender's invite is still pending
C4_Witness ==
  /\ application_evaluations # {}
  /\ last.op \in {"create", "upsert"} /\ last.code = 403
  /\ \E x \in application_reviewers : x.invite_status = "pending"

\* the reviewers whose assignment of application a is accepted
AcceptedReviewers(rows, a) ==
  {x.reviewer_id : x \in {y \in rows : y.application_id = a /\ y.invite_status = "accepted"}}

\* the reviewers that have an evaluation of application a
SubmittedReviewers(evals, a) ==
  {e.reviewer_id : e \in {y \in evals : y.application_id = a}}

\* C1: the status of an application becomes under_review only in a step that
\* raises its number of accepted assignments from below 2 to 2, every such
\* step makes it under_review, and no invite, response or sweep moves it out
\* of under_review.
C1_UnderReviewExactlyAtSecondAcceptance ==
  [][ \A a \in Apps :
        LET before == Cardinality(AcceptedReviewers(application_reviewers, a))
            after == Cardinality(AcceptedReviewers(application_reviewers', a))
        IN /\ (new_application[a] # "under_review" /\ new_application'[a] = "under_review")
                => (before < AcceptedThreshold /\ after = AcceptedThreshold)
           /\ (before < AcceptedThreshold /\ after = AcceptedThreshold)
                => new_application'[a] = "under_review"
           /\ (new_application[a] = "under_review" /\ last'.op \in {"invite", "respond", "sweep"})
                => new_application'[a] = "under_review"
    ]_vars

\* C2: a successful upsert of an evaluation of application a, with A accepted
\* assignments and E distinct reviewers with an evaluation once the row is
\* written, leaves the status evaluated when E >= A >= 1 and leaves the status
\* as it was otherwise; a status that was evaluated stays evaluated.
C2_EvaluatedIffAllAcceptedSubmitted ==
  [][ \A a \in Apps :
        (\E u \in Users, sc \in Scores : UpsertEvaluation(a, u, TRUE, sc) /\ last'.code = 200)
          => LET A == Cardinality(AcceptedReviewers(application_reviewers', a))
                 E == Cardinality(SubmittedReviewers(application_evaluations', a))
             IN /\ (E >= A /\ A >= 1) => new_application'[a] = "evaluated"
                /\ ~(E >= A /\ A >= 1) => new_application'[a] = new_application[a]
                /\ new_application[a] = "evaluated" => new_application'[a] = "evaluated"
    ]_vars

\* an upsert has just succeeded with two accepted reviewers, both of which
\* have submitted, and the application is evaluated
C2_Witness ==
  /\ last.op = "upsert" /\ last.code = 200
  /\ \E a \in Apps :
       /\ new_application[a] = "evaluated"
       /\ Cardinality(AcceptedReviewers(application_reviewers, a)) = 2
       /\ AcceptedReviewers(application_reviewers, a) \subseteq
            SubmittedReviewers(application_evaluations, a)

\* C3: an assignment whose invite_status is accepted or rejected keeps that
\* invite_status in every later step.
C3_AcceptedAndRejectedAreTerminal ==
  [][ \A x \in application_reviewers :
        x.invite_status \in {"accepted", "rejected"}
          => \E y \in application_reviewers' :
               y.id = x.id /\ y.invite_status = x.invite_status
    ]_vars

\* C5: no application has more than 5 reviewer assignments.
C5_AtMostFiveAssignments ==
  \A a \in Apps :
    Cardinality({x \in application_reviewers : x.application_id = a})
      <= MaxReviewersPerApplication

\* C6: when a pending application has 5 assignments, the insert of an invite
\* for a further reviewer profile without assignment is answered 409 and adds
\* no row.
C6_SixthInviteIsConflict ==
  [][ \A p \in Procs :
        LET a == inflight[p].app
            r == inflight[p].reviewer
        IN (/\ InviteTrigger(p) \/ InviteInsert(p)
            /\ inflight'[p].pc = "idle"
            /\ new_application[a] = "pending"
            /\ Cardinality({x \in application_reviewers : x.application_id = a})
                  = MaxReviewersPerApplication
            /\ AssignmentsOf(application_reviewers, a, r) = {})
           => /\ last'.code = 409
              /\ UNCHANGED application_reviewers
    ]_vars

\* C7: a pair (application, reviewer) has at most one assignment, and an
\* invite that completes while its pair already has an assignment is answered
\* 409 and leaves the table as it is.
C7_DuplicateInviteIsConflict ==
  [][ /\ \A x, y \in application_reviewers' :
           (x.application_id = y.application_id /\ x.reviewer_id = y.reviewer_id) => x = y
      /\ \A p \in Procs :
           (/\ InviteSelectExisting(p) \/ InviteTrigger(p) \/ InviteInsert(p)
            /\ inflight'[p].pc = "idle"
            /\ AssignmentsOf(application_reviewers, inflight[p].app, inflight[p].reviewer) # {})
           => /\ last'.code = 409
              /\ UNCHANGED application_reviewers
    ]_vars

\* C8: a response by an authenticated user that has no pending assignment of
\* the application is answered 404 and changes no assignment and no status.
C8_ResponseWithoutPendingInviteIsNotFound ==
  [][ \A a \in Apps, u \in Users, accept \in BOOLEAN :
        (/\ RespondToInvite(a, u, accept)
         /\ ~\E x \in AssignmentsOf(application_reviewers, a, u) : x.invite_status = "pending")
        => /\ last'.code = 404
           /\ UNCHANGED <<application_reviewers, new_application>>
    ]_vars

\* C9: an accepting response creates no assignment row; when the responder
\* had accepted already, the set of accepted reviewers is the same afterwards;
\* and a response changes the application status only when at least 2
\* distinct reviewers have accepted.
C9_RepeatedAcceptCountsOnce ==
  [][ \A a \in Apps, u \in Users :
        RespondToInvite(a, u, TRUE)
          => /\ {x.id : x \in application_reviewers'} = {x.id : x \in application_reviewers}
             /\ Cardinality(AssignmentsOf(application_reviewers', a, u)) <= 1
             /\ HasAccepted(a, u)
                  => AcceptedReviewers(application_reviewers', a)
                       = AcceptedReviewers(application_reviewers, a)
             /\ new_application'[a] # new_application[a]
                  => Cardinality(AcceptedReviewers(application_reviewers', a)) >= 2
    ]_vars

\* a reviewer that had accepted and submitted an evaluation has just accepted
\* again; it is the only accepted reviewer and the application is not under review
C9_Witness ==
  /\ last.op = "respond" /\ last.code = 200
  /\ \E a \in Apps :
       /\ AcceptedReviewers(application_reviewers, a) = {last.user}
       /\ Cardinality(AssignmentsOf(application_reviewers, a, last.user)) = 1
       /\ last.user \in SubmittedReviewers(application_evaluations, a)
       /\ \A x \in application_reviewers : x.reviewer_id # last.user => x.responded_at = NoTime
       /\ new_application[a] # "under_review"

\* C10: in the scenario the status is pending after R1 alone has accepted,
\* under_review once R2 has accepted and until both evaluations are in (also
\* after R3 has declined), and evaluated once R1 and R2 have both submitted
\* while R4 and R5 are still pending.
C10_ScenarioTrace ==
  LET st == new_application[ScenarioApp]
      submitted == SubmittedReviewers(application_evaluations, ScenarioApp)
  IN /\ (StatusOfInvite(1) = "pending") => st = "pending"
     /\ (StatusOfInvite(1) = "accepted" /\ StatusOfInvite(2) = "pending") => st = "pending"
     /\ (StatusOfInvite(2) = "accepted" /\ ~({1, 2} \subseteq submitted)) => st = "under_review"
     /\ ({1, 2} \subseteq submitted)
          => /\ st = "evaluated"
             /\ StatusOfInvite(3) = "rejected"
             /\ StatusOfInvite(4) = "pending" /\ StatusOfInvite(5) = "pending"

\* the end of the scenario
C10_Witness ==
  /\ SubmittedReviewers(application_evaluations, ScenarioApp) = {1, 2}
  /\ StatusOfInvite(3) = "rejected"
  /\ StatusOfInvite(4) = "pending" /\ StatusOfInvite(5) = "pending"
  /\ new_application[ScenarioApp] = "evaluated"
  /\ last.op = "upsert" /\ last.code = 200

\* C11: a submission that succeeds, through POST /api/evaluations or through
\* PUT /api/evaluations/application/:id, and leaves at least one accepted
\* reviewer and at least as many evaluations as accepted reviewers, leaves
\* the application evaluated.
C11_CompletionCheckAfterEverySubmission ==
  [][ \A a \in Apps, u \in Callers, sc \in Scores :
        (/\ CreateEvaluation(a, u, TRUE, sc) \/ UpsertEvaluation(a, u, TRUE, sc)
         /\ last'.code \in {200, 201})
        => LET acceptedCount == Cardinality(AcceptedRows(application_reviewers', a))
               evalCount == Cardinality({e \in application_evaluations' : e.application_id = a})
           IN (acceptedCount >= 1 /\ evalCount >= acceptedCount)
                => new_application'[a] = "evaluated"
    ]_vars

(* ---------------------------------------------------------------------- *)
(* Concurrent evaluation submissions: the reviewers of the application    *)
(* have accepted, and requests of both entry points give up control at    *)
(* every store round-trip                                                 *)
(* ---------------------------------------------------------------------- *)

EvalReviewers == 1..NumEvalReviewers
EvalScores == 1..NumEvalScores

\* the request a process is executing, with what it has read so far
EvalRequest(pc, a, u, score) ==
  [pc |-> pc, app |-> a, reviewer |-> u, score |-> score,
   existing |-> {}, acceptedCount |-> 0]

Reply(p, response) ==
  /\ inflight' = [inflight EXCEPT ![p] = Idle]
  /\ last' = response

\* validation and the assignment check of PUT /application/:applicationId
UpsertBegin(p, a, u, scoresOk, score) ==
  /\ inflight[p] = Idle
  /\ LET pre == EvaluationPrecheck(application_reviewers, a, u, scoresOk)
     IN IF pre # 0
        THEN Reply(p, Response("upsert", pre))
        ELSE /\ inflight' = [inflight EXCEPT ![p] = EvalRequest("upsert_existing", a, u, score)]
             /\ UNCHANGED last
  /\ UNCHANGED <<application_data,
                 new_application, application_reviewers, application_evaluations,
                 user_profiles, now>>

\* select("id") ... .maybeSingle(): the row of the pair, if there is exactly one
UpsertSelectExisting(p) ==
  /\ inflight[p].pc = "upsert_existing"
  /\ LET found == EvaluationsOf(application_evaluations, inflight[p].app, inflight[p].reviewer)
         existing == IF Cardinality(found) = 1 THEN found ELSE {}
     IN inflight' = [inflight EXCEPT ![p].pc = "upsert_write", ![p].existing = existing]
  /\ UNCHANGED <<application_data,
                 new_application, application_reviewers, application_evaluations,
                 user_profiles, now, last>>

\* runUpsert and the handling of its error
UpsertWrite(p) ==
  /\ inflight[p].pc = "upsert_write"
  /\ LET a == inflight[p].app
         u == inflight[p].reviewer
     IN IF inflight[p].existing = {} /\ EvaluationUniqueViolation(application_evaluations, a, u)
        THEN /\ Reply(p, Response("upsert", 409))
             /\ UNCHANGED application_evaluations
        ELSE /\ application_evaluations' =
                  RunUpsert(application_evaluations, inflight[p].existing, a, u, inflight[p].score)
             /\ inflight' = [inflight EXCEPT ![p].pc = "upsert_accepted"]
             /\ UNCHANGED last
  /\ UNCHANGED <<application_data, new_application, application_reviewers, user_profiles, now>>

\* the select of the accepted assignments
UpsertSelectAccepted(p) ==
  /\ inflight[p].pc = "upsert_accepted"
  /\ inflight' = [inflight EXCEPT
                    ![p].pc = "upsert_evaluations",
                    ![p].acceptedCount =
                       Cardinality(AcceptedRows(application_reviewers, inflight[p].app))]
  /\ UNCHANGED <<application_data,
                 new_application, application_reviewers, application_evaluations,
                 user_profiles, now, last>>

\* the select of the evaluations of the application and the completion test
UpsertSelectEvaluations(p) ==
  /\ inflight[p].pc = "upsert_evaluations"
  /\ LET uniqueReviewerIds ==
           {e.reviewer_id : e \in {x \in application_evaluations :
                                      x.application_id = inflight[p].app}}
         evalCount == Cardinality(uniqueReviewerIds)
     IN IF CompletionCondition(inflight[p].acceptedCount, evalCount)
        THEN /\ inflight' = [inflight EXCEPT ![p].pc = "upsert_status"]
             /\ UNCHANGED last
        ELSE Reply(p, [Response("upsert", 200)
                         EXCEPT !.body = UpsertMessage(inflight[p].existing)])
  /\ UNCHANGED <<application_data,
                 new_application, application_reviewers, application_evaluations,
                 user_profiles, now>>

\* update({status: "evaluated"}) and the response
UpsertSetStatus(p) ==
  /\ inflight[p].pc = "upsert_status"
  /\ new_application' = SetStatus(new_application, inflight[p].app, "evaluated")
  /\ Reply(p, [Response("upsert", 200) EXCEPT !.body = UpsertMessage(inflight[p].existing)])
  /\ UNCHANGED <<application_data,
                 application_reviewers, application_evaluations, user_profiles, now>>

\* validation and the assignment check of POST /api/evaluations
CreateBegin(p, a, u, scoresOk, score) ==
  /\ inflight[p] = Idle
  /\ LET pre == EvaluationPrecheck(application_reviewers, a, u, scoresOk)
     IN IF pre # 0
        THEN Reply(p, Response("create", pre))
        ELSE /\ inflight' = [inflight EXCEPT ![p] = EvalRequest("create_insert", a, u, score)]
             /\ UNCHANGED last
  /\ UNCHANGED <<application_data,
                 new_application, application_reviewers, application_evaluations,
                 user_profiles, now>>

\* .insert(...) of POST /api/evaluations and the handling of its error
CreateInsert(p) ==
  /\ inflight[p].pc = "create_insert"
  /\ LET a == inflight[p].app
         u == inflight[p].reviewer
     IN IF EvaluationUniqueViolation(application_evaluations, a, u)
        THEN /\ Reply(p, Response("create", 409))
             /\ UNCHANGED application_evaluations
        ELSE /\ application_evaluations' =
                  application_evaluations
                    \cup {NewEvaluation(application_evaluations, a, u, inflight[p].score)}
             /\ Reply(p, Response("create", 201))
  /\ UNCHANGED <<application_data, new_application, application_reviewers, user_profiles, now>>

\* every reviewer of the specification has been invited and has accepted
InitEval ==
  /\ new_application =
       [a \in Apps |-> IF NumEvalReviewers >= AcceptedThreshold
                       THEN "under_review" ELSE "pending"]
  /\ application_reviewers =
       {[id |-> <<a, r, 1>>, application_id |-> a, reviewer_id |-> r,
         invite_status |-> "accepted", invited_at |-> 0, responded_at |-> 0]
          : a \in Apps, r \in EvalReviewers}
  /\ application_evaluations = {}
  /\ user_profiles = EvalReviewers
  /\ now = 0
  /\ last = Response("none", 0)
  /\ application_data = [a \in Apps |-> SubmittedData]
  /\ inflight = [p \in Procs |-> Idle]

NextEval ==
  \/ \E a \in Apps, u \in Callers, ok \in BOOLEAN, sc \in EvalScores :
        UpsertEvaluation(a, u, ok, sc)
  \/ \E p \in Procs, a \in Apps, u \in Callers, ok \in BOOLEAN, sc \in EvalScores :
        UpsertBegin(p, a, u, ok, sc)
  \/ \E p \in Procs : UpsertSelectExisting(p)
  \/ \E p \in Procs : UpsertWrite(p)
  \/ \E p \in Procs : UpsertSelectAccepted(p)
  \/ \E p \in Procs : UpsertSelectEvaluations(p)
  \/ \E p \in Procs : UpsertSetStatus(p)
  \/ \E p \in Procs, a \in Apps, u \in Callers, ok \in BOOLEAN, sc \in EvalScores :
        CreateBegin(p, a, u, ok, sc)
  \/ \E p \in Procs : CreateInsert(p)

SpecEval == InitEval /\ [][NextEval]_vars

(* ---------------------------------------------------------------------- *)
(* Properties of the evaluation submissions                               *)
(* ---------------------------------------------------------------------- *)

\* what a write of score sc for the pair (a, u) may do to the table
WritesOneEvaluation(a, u, sc) ==
  LET before == EvaluationsOf(application_evaluations, a, u)
      after == EvaluationsOf(application_evaluations', a, u)
  IN /\ Cardinality(after) = 1
     /\ \A e \in after : e.score = sc
     /\ before # {} => {e.id : e \in after} = {e.id : e \in before}
     /\ application_evaluations' \ after = application_evaluations \ before
     /\ (before # {} /\ \A e \in before : e.score = sc)
          => application_evaluations' = application_evaluations

\* C12: every pair (application, reviewer) has at most one evaluation in every
\* reachable state; a successful submission leaves exactly one evaluation of
\* the pair, holding the submitted scores, created when the pair had none and
\* the same record otherwise, and touches no other evaluation; a submission
\* identical to the stored evaluation leaves the table as it was.
C12_OneEvaluationPerPair ==
  /\ [](\A a \in Apps, r \in Users :
          Cardinality(EvaluationsOf(application_evaluations, a, r)) <= 1)
  /\ [][ /\ \A a \in Apps, u \in EvalReviewers, sc \in EvalScores :
              (UpsertEvaluation(a, u, TRUE, sc) /\ last'.code = 200)
                => WritesOneEvaluation(a, u, sc)
         /\ \A p \in Procs :
              (UpsertWrite(p) /\ inflight'[p].pc = "upsert_accepted")
                => WritesOneEvaluation(inflight[p].app, inflight[p].reviewer, inflight[p].score)
      ]_vars

\* a submission has just overwritten the evaluation of its pair
C12_Witness ==
  /\ last.op = "upsert" /\ last.code = 200
  /\ last.body = UpsertMessage(application_evaluations)
  /\ \E e \in application_evaluations : e.score = NumEvalScores
  /\ \A a \in Apps, r \in EvalReviewers :
       Cardinality(EvaluationsOf(application_evaluations, a, r)) = 1

\* C14: no interleaving of submissions leaves two evaluations of one pair; a
\* request that has seen no evaluation of its pair inserts one when the pair
\* still has none at its write, and is answered 409 without writing when a
\* racing request has inserted first.
C14_RacingSubmissionsInsertOnce ==
  /\ [](\A a \in Apps, r \in EvalReviewers :
          Cardinality(EvaluationsOf(application_evaluations, a, r)) <= 1)
  /\ [][ \A p \in Procs :
           ((UpsertWrite(p) /\ inflight[p].existing = {}) \/ CreateInsert(p))
             => LET a == inflight[p].app
                    u == inflight[p].reviewer
                IN IF EvaluationsOf(application_evaluations, a, u) = {}
                   THEN /\ Cardinality(EvaluationsOf(application_evaluations', a, u)) = 1
                        /\ inflight'[p] = Idle => last'.code = 201
                   ELSE /\ inflight'[p] = Idle
                        /\ last'.code = 409
                        /\ UNCHANGED application_evaluations
      ]_vars

\* of two requests that saw no evaluation of the pair, one has inserted and
\* has not returned yet, and the other has just been answered 409
C14_Witness ==
  /\ last.code = 409
  /\ \E p \in Procs :
       /\ inflight[p].pc = "upsert_accepted"
       /\ inflight[p].existing = {}
       /\ Cardinality(EvaluationsOf(application_evaluations,
                                    inflight[p].app, inflight[p].reviewer)) = 1
  /\ \A q \in Procs : inflight[q].pc \in {"idle", "upsert_accepted"}

(* ---------------------------------------------------------------------- *)
(* Score validation of the evaluation handlers.  A score of a request     *)
(* body is a JSON string, modelled as a sequence of characters, or a JSON *)
(* number, modelled as the fraction n/d (d a power of ten, n not a        *)
(* multiple of ten unless d = 1) of its shortest decimal expansion        *)
(* ---------------------------------------------------------------------- *)

ScoreKeys ==
  {"needScore", "noveltyScore", "feasibilityScalabilityScore",
   "marketPotentialScore", "impactScore"}

ScoreChars == {"0", "1", "5", ".", "-", "a"}
DigitChars == <<"0", "1", "2", "3", "4", "5", "6", "7", "8", "9">>
IsDigit(c) == \E i \in 1..Len(DigitChars) : DigitChars[i] = c
DigitValue(c) == (CHOOSE i \in 1..Len(DigitChars) : DigitChars[i] = c) - 1

\* the strings of at most n characters
RECURSIVE StringsUpTo(_)
StringsUpTo(n) ==
  IF n = 0 THEN {<<>>}
  ELSE LET shorter == StringsUpTo(n - 1)
       IN shorter \cup {Append(s, c) : s \in shorter, c \in ScoreChars}

StringScore(text) == [type |-> "string", text |-> text]
NumberScore(n, d) == [type |-> "number", n |-> n, d |-> d]

NumberScores ==
  {NumberScore(0 - 1, 1), NumberScore(0, 1), NumberScore(5, 1), NumberScore(10, 1),
   NumberScore(11, 1), NumberScore(95, 10), NumberScore(944, 100),
   NumberScore(9444, 1000), NumberScore(1001, 100)}

RawScores == {StringScore(s) : s \in StringsUpTo(MaxScoreLen)} \cup NumberScores

\* the value of a run of decimal digits
RECURSIVE DigitsValue(_)
DigitsValue(s) ==
  IF Len(s) = 0 THEN 0
  ELSE DigitsValue(SubSeq(s, 1, Len(s) - 1)) * 10 + DigitValue(s[Len(s)])

\* the index after the run of digits of s that starts at i
RECURSIVE DigitRunEnd(_, _)
DigitRunEnd(s, i) ==
  IF i <= Len(s) /\ IsDigit(s[i]) THEN DigitRunEnd(s, i + 1) ELSE i

\* the decimal digits of a natural number
RECURSIVE NaturalToString(_)
NaturalToString(n) ==
  IF n < 10 THEN <<DigitChars[n + 1]>>
  ELSE Append(NaturalToString(n \div 10), DigitChars[(n % 10) + 1])

\* the number of decimals of a denominator 10^k
RECURSIVE Decimals(_)
Decimals(d) == IF d <= 1 THEN 0 ELSE 1 + Decimals(d \div 10)

\* n as exactly k digits, with leading zeros
RECURSIVE PadDigits(_, _)
PadDigits(n, k) ==
  IF k = 0 THEN <<>> ELSE Append(PadDigits(n \div 10, k - 1), DigitChars[(n % 10) + 1])

NaN == [nan |-> TRUE, n |-> 0, d |-> 1]

\* parseFloat(text): the value of the longest prefix that is a decimal
\* literal (sign, digits, a point, digits; at least one digit), or NaN
parseFloat(text) ==
  LET negative == Len(text) >= 1 /\ text[1] = "-"
      start == IF negative THEN 2 ELSE 1
      intEnd == DigitRunEnd(text, start)
      hasPoint == intEnd <= Len(text) /\ text[intEnd] = "."
      fracEnd == IF hasPoint THEN DigitRunEnd(text, intEnd + 1) ELSE intEnd
      intDigits == SubSeq(text, start, intEnd - 1)
      fracDigits == IF hasPoint THEN SubSeq(text, intEnd + 1, fracEnd - 1) ELSE <<>>
      magnitude == DigitsValue(intDigits \o fracDigits)
  IN IF Len(intDigits) + Len(fracDigits) = 0 THEN NaN
     ELSE [nan |-> FALSE,
           n |-> IF negative THEN 0 - magnitude ELSE magnitude,
           d |-> 10 ^ Len(fracDigits)]

\* String(raw): a string is itself, a number its shortest decimal expansion
String(raw) ==
  IF raw.type = "string" THEN raw.text
  ELSE LET magnitude == IF raw.n < 0 THEN 0 - raw.n ELSE raw.n
           sign == IF raw.n < 0 THEN <<"-">> ELSE <<>>
           whole == NaturalToString(magnitude \div raw.d)
       IN IF raw.d = 1 THEN sign \o whole
          ELSE sign \o whole \o <<".">> \o PadDigits(magnitude % raw.d, Decimals(raw.d))

\* typeof raw === "string" ? parseFloat(raw) : Number(raw)
ToNumber(raw) ==
  IF raw.type = "string" THEN parseFloat(raw.text)
  ELSE [nan |-> FALSE, n |-> raw.n, d |-> raw.d]

\* scoreStr.split("."): the pieces between the points
RECURSIVE Split(_)
Split(text) ==
  IF \A i \in 1..Len(text) : text[i] # "." THEN <<text>>
  ELSE LET point == CHOOSE i \in 1..Len(text) :
                       text[i] = "." /\ \A j \in 1..(i - 1) : text[j] # "."
       IN <<SubSeq(text, 1, point - 1)>> \o Split(SubSeq(text, point + 1, Len(text)))

\* the test every handler applies to each of the five scores
ScoreIsValid(raw) ==
  LET num == ToNumber(raw)
      decimalParts == Split(String(raw))
  IN /\ Len(String(raw)) > 0
     /\ ~num.nan /\ num.n >= 0 /\ num.n <= MaxScore * num.d
     /\ ~(Len(decimalParts) = 2 /\ Len(decimalParts[2]) > MaxDecimals)

\* the validation loops over the five keys
ScoresAreValid(scores) == \A k \in ScoreKeys : ScoreIsValid(scores[k])

\* a request of an accepted reviewer whose scores have not been looked at yet
ScoreRequest(scores) ==
  [pc |-> "validate", app |-> CHOOSE a \in Apps : TRUE, reviewer |-> 1, scores |-> scores]

\* the validation of the request of process p
ValidateScores(p) ==
  /\ inflight[p].pc = "validate"
  /\ IF ScoresAreValid(inflight[p].scores)
     THEN /\ inflight' = [inflight EXCEPT ![p].pc = "validated"]
          /\ last' = Response("validate", 0)
     ELSE Reply(p, Response("validate", 400))
  /\ UNCHANGED <<application_data,
                 new_application, application_reviewers, application_evaluations,
                 user_profiles, now>>

\* a request has arrived in which one score is any of the raw scores and the
\* other four are "5"
InitScore ==
  /\ new_application = [a \in Apps |-> "pending"]
  /\ application_reviewers =
       {[id |-> <<a, 1, 1>>, application_id |-> a, reviewer_id |-> 1,
         invite_status |-> "accepted", invited_at |-> 0, responded_at |-> 0] : a \in Apps}
  /\ application_evaluations = {}
  /\ user_profiles = {1}
  /\ now = 0
  /\ last = Response("none", 0)
  /\ application_data = [a \in Apps |-> SubmittedData]
  /\ \E key \in ScoreKeys, raw \in RawScores :
       inflight = [p \in Procs |->
                     IF p = 1
                     THEN ScoreRequest([k \in ScoreKeys |->
                                          IF k = key THEN raw ELSE StringScore(<<"5">>)])
                     ELSE Idle]

NextScore == \E p \in Procs : ValidateScores(p)

SpecScore == InitScore /\ [][NextScore]_vars

\* a string that is a decimal numeral from its first to its last character
NumericText(text) ==
  LET body == IF Len(text) >= 1 /\ text[1] = "-" THEN SubSeq(text, 2, Len(text)) ELSE text
  IN /\ \E i \in 1..Len(body) : IsDigit(body[i])
     /\ \A i \in 1..Len(body) : IsDigit(body[i]) \/ body[i] = "."
     /\ Cardinality({i \in 1..Len(body) : body[i] = "."}) <= 1

\* the digits that follow the point of a numeral
FractionDigits(text) ==
  IF \E i \in 1..Len(text) : text[i] = "."
  THEN Len(text) - (CHOOSE i \in 1..Len(text) : text[i] = ".")
  ELSE 0

\* a score that is non-numeric, outside [0, 10] or has more than 2 decimals
ScoreIsInvalidInput(raw) ==
  IF raw.type = "number"
  THEN raw.n < 0 \/ raw.n > MaxScore * raw.d \/ Decimals(raw.d) > MaxDecimals
  ELSE \/ ~NumericText(raw.text)
       \/ parseFloat(raw.text).n < 0
       \/ parseFloat(raw.text).n > MaxScore * parseFloat(raw.text).d
       \/ FractionDigits(raw.text) > MaxDecimals

\* C13: a request in which one of the five scores is non-numeric, outside
\* [0, 10] or has more than 2 decimal digits is answered 400 by the
\* validation and writes nothing.
C13_InvalidScoresAreRejected ==
  [][ \A p \in Procs :
        (/\ ValidateScores(p)
         /\ \E k \in ScoreKeys : ScoreIsInvalidInput(inflight[p].scores[k]))
        => /\ last'.code = 400
           /\ inflight'[p] = Idle
           /\ UNCHANGED <<application_evaluations, new_application>>
    ]_vars

(* ---------------------------------------------------------------------- *)
(* The sweep next to invitations and responses: the clock advances day by *)
(* day, and a run of the sweep gives up control between its select and    *)
(* its update                                                             *)
(* ---------------------------------------------------------------------- *)

SweepReviewers == 1..NumSweepReviewers

\* a run that has computed its cutoff from startedAt and has not updated yet
SweepRun(startedAt) ==
  [pc |-> "sweep_update", app |-> MissingApp, reviewer |-> NonReviewer,
   startedAt |-> startedAt]

\* the cutoff and the select; a run that finds no row returns {updated: 0}
SweepSelect(p) ==
  /\ inflight[p] = Idle
  /\ LET cutoff == now - REVIEWER_INVITE_EXPIRE_DAYS
         pendingRows == ExpiredRows(application_reviewers, cutoff)
     IN IF pendingRows = {}
        THEN Reply(p, SweepResponse({}, now))
        ELSE /\ inflight' = [inflight EXCEPT ![p] = SweepRun(now)]
             /\ UNCHANGED last
  /\ UNCHANGED <<application_data,
                 new_application, application_reviewers, application_evaluations,
                 user_profiles, now>>

\* the update with the filter of the select, the count and the notifications
SweepUpdate(p) ==
  /\ inflight[p].pc = "sweep_update"
  /\ LET cutoff == inflight[p].startedAt - REVIEWER_INVITE_EXPIRE_DAYS
         updated == ExpiredRows(application_reviewers, cutoff)
     IN /\ application_reviewers' = ExpireUpdate(application_reviewers, cutoff, now)
        /\ \E emailResult \in SweepMail(updated) :
             Reply(p, Notified(SweepResponse(updated, inflight[p].startedAt), emailResult))
  /\ UNCHANGED <<application_data,
                 new_application, application_evaluations, user_profiles, now>>

\* a day passes
TickDay ==
  /\ now < MaxDays
  /\ now' = now + 1
  /\ last' = Response("tick", 0)
  /\ UNCHANGED <<application_data,
                 new_application, application_reviewers, application_evaluations,
                 user_profiles, inflight>>

InitSweep ==
  /\ new_application = [a \in Apps |-> "pending"]
  /\ application_reviewers = {}
  /\ application_evaluations = {}
  /\ user_profiles = SweepReviewers
  /\ now = 0
  /\ last = Response("none", 0)
  /\ application_data = [a \in Apps |-> SubmittedData]
  /\ inflight = [p \in Procs |-> Idle]

NextSweep ==
  \/ \E a \in Apps, r \in user_profiles : InviteReviewer(a, r)
  \/ \E a \in Apps, u \in user_profiles, accept \in BOOLEAN : RespondToInvite(a, u, accept)
  \/ expirePendingReviewerInvites
  \/ \E p \in Procs : SweepSelect(p)
  \/ \E p \in Procs : SweepUpdate(p)
  \/ TickDay

SpecSweep == InitSweep /\ [][NextSweep]_vars

(* ---------------------------------------------------------------------- *)
(* Properties of the sweep                                                *)
(* ---------------------------------------------------------------------- *)

\* the row of rows with the id of x
RowOf(rows, x) == CHOOSE y \in rows : y.id = x.id

SameIds(rows1, rows2) == {x.id : x \in rows1} = {x.id : x \in rows2}

\* C15: a run of the sweep sets to rejected, with responded_at = now, every
\* assignment that is pending and was invited more than 2 days before the run,
\* and changes no other assignment; no run, whatever requests it interleaves
\* with, changes a pending assignment that is not more than 2 days old.
C15_SweepExpiresExactlyOldPending ==
  [][ /\ expirePendingReviewerInvites
           => /\ SameIds(application_reviewers', application_reviewers)
              /\ \A x \in application_reviewers :
                   RowOf(application_reviewers', x) =
                     IF x.invite_status = "pending"
                          /\ now - x.invited_at > REVIEWER_INVITE_EXPIRE_DAYS
                     THEN [x EXCEPT !.invite_status = "rejected", !.responded_at = now]
                     ELSE x
      /\ \A p \in Procs :
           SweepUpdate(p)
             => \A x \in application_reviewers :
                   (x.invite_status = "pending"
                      /\ now - x.invited_at <= REVIEWER_INVITE_EXPIRE_DAYS)
                     => x \in application_reviewers'
    ]_vars

\* a run has just rejected an invite sent 3 days ago and has left pending an
\* invite sent exactly 2 days ago
C15_Witness ==
  /\ last.op = "sweep" /\ last.updated = 1 /\ last.at = now
  /\ \E x \in application_reviewers :
       /\ x.id \in last.body
       /\ x.invite_status = "rejected" /\ x.responded_at = now
       /\ now - x.invited_at = REVIEWER_INVITE_EXPIRE_DAYS + 1
  /\ \E x \in application_reviewers :
       /\ x.invite_status = "pending"
       /\ now - x.invited_at = REVIEWER_INVITE_EXPIRE_DAYS

\* C16: no step of the sweep, atomic or interleaved with responses, changes
\* an assignment that is not pending when the update runs; a response written
\* between the select and the update of a run stays as written.
C16_SweepLeavesResponsesAlone ==
  [][ (expirePendingReviewerInvites \/ \E p \in Procs : SweepUpdate(p))
        => /\ SameIds(application_reviewers', application_reviewers)
           /\ \A x \in application_reviewers :
                x.invite_status # "pending" => x \in application_reviewers'
    ]_vars

\* a run selected the only assignment while it was pending and older than 2
\* days, the reviewer accepted before the update, and the update has run:
\* the assignment is accepted and the run reports 0 rows
C16_Witness ==
  /\ last.op = "sweep" /\ last.updated = 0 /\ last.at < now
  /\ Cardinality(application_reviewers) = 1
  /\ \E x \in application_reviewers :
       /\ x.invite_status = "accepted"
       /\ x.responded_at > last.at
       /\ last.at - x.invited_at > REVIEWER_INVITE_EXPIRE_DAYS

\* the rows a step moves from pending to rejected
Transitioned ==
  {x \in application_reviewers :
     /\ x.invite_status = "pending"
     /\ RowOf(application_reviewers', x).invite_status = "rejected"}

\* C17: a run returns the number of rows it has moved from pending to
\* rejected and notifies exactly those rows; a run that completes right
\* after another run, having started no later than that run (one after the
\* other at the same time, or overlapping), moves no row, returns 0 and
\* notifies nothing.
C17_SweepCountsAndIsIdempotent ==
  [][ \A startedAt \in 0..now :
        (\/ startedAt = now /\ expirePendingReviewerInvites
         \/ \E p \in Procs : inflight[p].pc = "sweep_update"
                               /\ inflight[p].startedAt = startedAt /\ SweepUpdate(p))
        => /\ SameIds(application_reviewers', application_reviewers)
           /\ last'.updated = Cardinality(Transitioned)
           /\ last'.body = {x.id : x \in Transitioned}
           /\ (last.op = "sweep" /\ startedAt <= last.at)
                => /\ UNCHANGED application_reviewers
                   /\ last'.updated = 0
                   /\ last'.body = {}
    ]_vars

\* two runs overlapped: both selected the expired invite, the first update
\* rejected it, and the second update has just returned 0
C17_Witness ==
  /\ last.op = "sweep" /\ last.updated = 0 /\ last.body = {}
  /\ \A p \in Procs : inflight[p] = Idle
  /\ \E x \in application_reviewers :
       /\ x.invite_status = "rejected"
       /\ x.responded_at = now
       /\ last.at - x.invited_at > REVIEWER_INVITE_EXPIRE_DAYS

(* ---------------------------------------------------------------------- *)
(* The server process: what runs once the server listens.  The callback   *)
(* of app.listen logs and tests the store connection; it starts no timer, *)
(* and no code calls expirePendingReviewerInvites, so the only steps are  *)
(* the requests of managers and reviewers and the passing of time         *)
(* ---------------------------------------------------------------------- *)

\* app.listen(PORT, async () => { ...; await testConnection(); })
ServerListen ==
  /\ last.op = "none"
  /\ last' = Response("listen", 0)
  /\ UNCHANGED <<application_data,
                 new_application, application_reviewers, application_evaluations,
                 user_profiles, now, inflight>>

NextServer ==
  \/ ServerListen
  \/ last.op # "none" /\ \E a \in Apps, r \in user_profiles : InviteReviewer(a, r)
  \/ last.op # "none" /\ \E a \in Apps, u \in user_profiles, accept \in BOOLEAN :
                           RespondToInvite(a, u, accept)
  \/ last.op # "none" /\ TickDay

\* the start-up callback runs and time passes; no reviewer has to respond
SpecServer ==
  InitSweep /\ [][NextServer]_vars /\ WF_vars(ServerListen) /\ WF_vars(TickDay)

IsPending(a, r) ==
  \E x \in AssignmentsOf(application_reviewers, a, r) : x.invite_status = "pending"

\* C18: every pending assignment is eventually moved out of pending, by a
\* response of its reviewer or by the sweep that runs at start-up and then on
\* a fixed interval.
C18_PendingInvitesEventuallyLeavePending ==
  \A a \in Apps, r \in SweepReviewers : IsPending(a, r) ~> ~IsPending(a, r)

(* ---------------------------------------------------------------------- *)
(* Drafts: POST /api/applications/draft and GET /api/applications/resume  *)
(* ---------------------------------------------------------------------- *)

\* raw resume tokens; NoToken is a request without token
Tokens == 1..NumTokens
NoToken == 0

\* a digest that is the token itself
hashToken_Identity(token) ==
  token

\* sha256 hex digest of a token: injective, never the token itself, and the
\* digest of a digest is no digest of a token
hashToken(token) == token + NumTokens

\* the tokens a resume request may carry: issued or not, or a stored digest
ResumeTokens == Tokens \cup {hashToken(t) : t \in Tokens} \cup {NoToken}

\* applicationId of a draft request: absent, or not a UUID
NoApplicationId == -1
MalformedId == -2

\* a field the request does not have
Undefined == "undefined"

\* the bodies of a draft request, three fields of the form
DraftBodies ==
  [teamName : {"a", Undefined}, hasProofOfConcept : {"Yes", "yes"},
   email : {"a@x", Undefined}]

\* yesNo = v === "Yes" ? "Yes" : "No"
yesNo(v) == IF v = "Yes" THEN "Yes" ELSE "No"

\* buildDraftPayload: the columns written for a draft
buildDraftPayload(body) ==
  [fields |-> [team_name |-> IF body.teamName = Undefined THEN "" ELSE body.teamName,
               has_proof_of_concept |-> yesNo(body.hasProofOfConcept),
               email |-> IF body.email = Undefined THEN "" ELSE body.email],
   status |-> "draft"]

\* .eq("id", applicationId) without .eq("status", "draft")
DraftMatches_AnyStatus(apps, applicationId) ==
  applicationId \in DOMAIN apps

\* .eq("id", applicationId).eq("status", "draft")
DraftMatches(apps, applicationId) ==
  applicationId \in DOMAIN apps /\ apps[applicationId] = "draft"

\* gen_random_uuid() of a new row of new_application
FreshApplicationId(apps) ==
  (CHOOSE i \in DOMAIN apps : \A j \in DOMAIN apps : j <= i) + 1

Drafts(apps) == {i \in DOMAIN apps : apps[i] = "draft"}

DraftResponse(code, id, resumeToken, isNew) ==
  [Response("draft", code)
     EXCEPT !.body = [id |-> id, resumeToken |-> resumeToken, isNew |-> isNew]]

\* an update that issues the draft a new expiry
DraftUpdate_Renew(row, payload, t) ==
  [row EXCEPT !.fields = payload.fields, !.updated_at = t,
              !.resume_token_expiry = t + RESUME_TOKEN_EXPIRY_DAYS]

\* .update({ ...payload, updated_at }): the columns of the payload, which
\* has neither resume_token_hash nor resume_token_expiry
DraftUpdate(row, payload, t) ==
  [row EXCEPT !.fields = payload.fields, !.updated_at = t]

\* router.post("/draft"); resumeToken is the value randomBytes returns
SaveDraft(applicationId, body, resumeToken) ==
  LET payload == buildDraftPayload(body)
      id == FreshApplicationId(new_application)
  IN /\ IF applicationId = MalformedId
        THEN /\ last' = Response("draft", 400)
             /\ UNCHANGED <<new_application, application_data>>
        ELSE IF applicationId # NoApplicationId
        THEN IF ~DraftMatches(new_application, applicationId)
             THEN /\ last' = Response("draft", 404)
                  /\ UNCHANGED <<new_application, application_data>>
             ELSE /\ new_application' =
                       [new_application EXCEPT ![applicationId] = payload.status]
                  /\ application_data' =
                       [application_data EXCEPT
                          ![applicationId] = DraftUpdate(application_data[applicationId],
                                                         payload, now)]
                  /\ last' = DraftResponse(200, applicationId, NoToken, FALSE)
        ELSE /\ Cardinality(Drafts(new_application)) < NumDrafts
             /\ \A i \in DOMAIN application_data :
                  application_data[i].resume_token_hash # hashToken(resumeToken)
             /\ new_application' =
                  [i \in DOMAIN new_application \cup {id} |->
                     IF i = id THEN payload.status ELSE new_application[i]]
             /\ application_data' =
                  [i \in DOMAIN application_data \cup {id} |->
                     IF i = id
                     THEN [fields |-> payload.fields,
                           resume_token_hash |-> hashToken(resumeToken),
                           resume_token_expiry |-> now + RESUME_TOKEN_EXPIRY_DAYS,
                           updated_at |-> NoTime]
                     ELSE application_data[i]]
             \* if (toEmail) await sendResumeLinkEmail(toEmail, resumeToken, ...)
             /\ IF payload.fields.email # ""
                THEN \E emailResult \in MailOutcomes :
                       last' = Notified(DraftResponse(200, id, resumeToken, TRUE),
                                        emailResult)
                ELSE last' = DraftResponse(200, id, resumeToken, TRUE)
     /\ UNCHANGED <<application_reviewers, application_evaluations, user_profiles,
                    now, inflight>>

\* a link that never expires
ResumeExpired_Never(expiry, t) ==
  FALSE

\* draft.resume_token_expiry && new Date(draft.resume_token_expiry) < new Date()
ResumeExpired(expiry, t) ==
  expiry # NoTime /\ expiry < t

\* const { resume_token_hash, resume_token_expiry, ...safe } = draft
SafeDraft(apps, data, i) ==
  [id |-> i, status |-> apps[i], fields |-> data[i].fields,
   updated_at |-> data[i].updated_at]

\* router.get("/resume")
ResumeDraft(token) ==
  /\ last' =
       IF token = NoToken THEN Response("resume", 400)
       ELSE LET tokenHash == hashToken(token)
                found == {i \in DOMAIN new_application :
                            /\ application_data[i].resume_token_hash = tokenHash
                            /\ new_application[i] = "draft"}
            IN \* .single(): no row, or several, is PGRST116
               IF Cardinality(found) # 1 THEN Response("resume", 404)
               ELSE LET i == CHOOSE i \in found : TRUE
                    IN IF ResumeExpired(application_data[i].resume_token_expiry, now)
                       THEN Response("resume", 410)
                       ELSE [Response("resume", 200)
                               EXCEPT !.body = SafeDraft(new_application, application_data, i)]
  /\ UNCHANGED <<application_data, new_application, application_reviewers,
                 application_evaluations, user_profiles, now, inflight>>

\* the instants at which a resume link is looked at: the day it is issued,
\* the day after, and the same days one or more expiry periods later
DraftInstants ==
  {k * RESUME_TOKEN_EXPIRY_DAYS + j : k \in 0..MaxDraftPeriods, j \in 0..1}

\* the clock advances to a later instant
TickTo(t) ==
  /\ t > now
  /\ now' = t
  /\ last' = Response("tick", 0)
  /\ UNCHANGED <<application_data, new_application, application_reviewers,
                 application_evaluations, user_profiles, inflight>>

\* the submitted application is pending, or under review with its reviewers
InitDraft ==
  /\ \E s \in {"pending", "under_review"} :
       /\ new_application = [a \in Apps |-> s]
       /\ application_reviewers =
            IF s = "pending" THEN {}
            ELSE {[id |-> <<a, r, 1>>, application_id |-> a, reviewer_id |-> r,
                   invite_status |-> "accepted", invited_at |-> 0, responded_at |-> 0]
                    : a \in Apps, r \in 1..AcceptedThreshold}
  /\ application_evaluations = {}
  /\ user_profiles = 1..AcceptedThreshold
  /\ now = 0
  /\ last = Response("none", 0)
  /\ application_data = [a \in Apps |-> SubmittedData]
  /\ inflight = [p \in Procs |-> Idle]

NextDraft ==
  \/ \E applicationId \in DOMAIN new_application \cup {MissingApp, NoApplicationId, MalformedId},
        body \in DraftBodies, resumeToken \in Tokens :
        SaveDraft(applicationId, body, resumeToken)
  \/ \E token \in ResumeTokens : ResumeDraft(token)
  \/ \E t \in DraftInstants : TickTo(t)

SpecDraft == InitDraft /\ [][NextDraft]_vars

(* ---------------------------------------------------------------------- *)
(* Properties of the drafts                                               *)
(* ---------------------------------------------------------------------- *)

\* the rows whose stored digest is the digest of the token
RowsOfToken(token) ==
  {i \in DOMAIN application_data : application_data[i].resume_token_hash = hashToken(token)}

\* C19: SaveDraft without applicationId stores the digest of the token it
\* returns and an expiry 30 days later; ResumeDraft with that token, while
\* the row is a draft, returns the fields of the row without
\* resume_token_hash and resume_token_expiry up to the expiry and 410 after
\* it; a token whose digest no row stores gets 404; and ResumeDraft changes
\* no state.
C19_ResumeDraftReturnsDraftUntilExpiry ==
  [][ /\ \A body \in DraftBodies, token \in Tokens :
           SaveDraft(NoApplicationId, body, token)
             => LET i == last'.body.id
                IN /\ last'.body.resumeToken = token
                   /\ RowsOfToken(token)' = {i}
                   /\ application_data'[i].resume_token_expiry = now + RESUME_TOKEN_EXPIRY_DAYS
      /\ \A token \in ResumeTokens \ {NoToken} :
           ResumeDraft(token)
             => /\ UNCHANGED <<new_application, application_data, application_reviewers,
                               application_evaluations, user_profiles>>
                /\ RowsOfToken(token) = {} => last'.code = 404
                /\ \A i \in RowsOfToken(token) :
                     new_application[i] = "draft"
                       => IF now <= application_data[i].resume_token_expiry
                          THEN /\ last'.code = 200
                               /\ last'.body.id = i
                               /\ last'.body.fields = application_data[i].fields
                               /\ DOMAIN last'.body
                                    \cap {"resume_token_hash", "resume_token_expiry"} = {}
                          ELSE last'.code = 410
    ]_vars

\* a draft has just been resumed on the day its link expires
C19_Witness ==
  /\ last.op = "resume" /\ last.code = 200
  /\ new_application[last.body.id] = "draft"
  /\ application_data[last.body.id].resume_token_expiry = now
  /\ now >= RESUME_TOKEN_EXPIRY_DAYS

\* C20: SaveDraft with an applicationId that matches a draft changes that row
\* only; with a well-formed applicationId that matches no row or a row that
\* is not a draft it is answered 404 and changes no row.
C20_SaveDraftUpdatesOnlyDrafts ==
  [][ \A applicationId \in DOMAIN new_application \cup {MissingApp},
         body \in DraftBodies, token \in Tokens :
        SaveDraft(applicationId, body, token)
          => IF applicationId \in DOMAIN new_application
                  /\ new_application[applicationId] = "draft"
             THEN /\ last'.code = 200
                  /\ DOMAIN new_application' = DOMAIN new_application
                  /\ \A i \in DOMAIN new_application \ {applicationId} :
                       /\ new_application'[i] = new_application[i]
                       /\ application_data'[i] = application_data[i]
             ELSE /\ last'.code = 404
                  /\ UNCHANGED <<new_application, application_data>>
    ]_vars

\* a draft exists, and a save addressed to the submitted application has
\* just been answered 404
C20_Witness ==
  /\ last.op = "draft" /\ last.code = 404
  /\ Drafts(new_application) # {}
  /\ \A a \in Apps : new_application[a] = "under_review" /\ application_data[a] = SubmittedData

\* C21: no row stores a raw token: the stored value is the digest of the
\* token, next to an expiry; a response carries a raw token only in the step
\* of SaveDraft that creates the row of that token, and the responses of
\* draft updates and of ResumeDraft carry neither a token nor a digest.
C21_RawTokenNeverPersisted ==
  /\ [](\A i \in DOMAIN application_data :
          /\ application_data[i].resume_token_hash \notin Tokens
          /\ application_data[i].resume_token_hash # NoHash
               => /\ \E t \in Tokens :
                       application_data[i].resume_token_hash = hashToken(t)
                  /\ application_data[i].resume_token_expiry # NoTime)
  /\ [][ (last'.op \in {"draft", "resume"} /\ last'.code = 200)
           => IF last'.op = "resume"
              THEN DOMAIN last'.body
                     \cap {"resumeToken", "resume_token_hash", "resume_token_expiry"} = {}
              ELSE IF last'.body.id \in DOMAIN new_application
              THEN last'.body.resumeToken = NoToken
              ELSE /\ last'.body.resumeToken \in Tokens
                   /\ RowsOfToken(last'.body.resumeToken) = {}
                   /\ application_data'[last'.body.id].resume_token_hash
                        = hashToken(last'.body.resumeToken)
      ]_vars

\* a draft was created, and an update of it has just been answered without
\* token
C21_Witness ==
  /\ last.op = "draft" /\ last.code = 200
  /\ ~last.body.isNew /\ last.body.resumeToken = NoToken
  /\ application_data[last.body.id].resume_token_hash \in {hashToken(t) : t \in Tokens}


(* ---------------------------------------------------------------------- *)
(* Notifications                                                          *)
(* ---------------------------------------------------------------------- *)

\* the draft requests that differ in the address the resume link is sent to
NotifyBodies ==
  {body \in DraftBodies : body.teamName = "a" /\ body.hasProofOfConcept = "Yes"}

\* the invitations, the responses, the sweep and the new drafts in one history
NextNotify ==
  \/ \E a \in AppIds, r \in user_profiles \cup {NonReviewer} : InviteReviewer(a, r)
  \/ \E a \in AppIds, u \in user_profiles, accept \in BOOLEAN : RespondToInvite(a, u, accept)
  \/ expirePendingReviewerInvites
  \/ \E body \in NotifyBodies, resumeToken \in Tokens :
       SaveDraft(NoApplicationId, body, resumeToken)
  \/ Tick

SpecNotify == Init /\ [][NextNotify]_vars

\* C22: whenever InviteReviewer, RespondToInvite, the sweep or SaveDraft has
\* sent a notification, delivered or not, the request is answered as a
\* success and its write is in the store: the assignment is inserted, the
\* response is recorded, the reported rows are rejected, the draft exists; a
\* request answered as a failure has sent nothing.
C22_NotificationFailureIsHarmless ==
  [][ /\ last'.mail \in MailOutcomes =>
           CASE last'.op = "invite" ->
                  /\ last'.code = 201
                  /\ \E x \in application_reviewers' \ application_reviewers :
                       /\ x.invite_status = "pending"
                       /\ application_reviewers' = application_reviewers \cup {x}
             [] last'.op = "respond" ->
                  /\ last'.code = 200
                  /\ \E a \in AppIds, accept \in BOOLEAN :
                       /\ application_reviewers'
                            = RespondUpdate(application_reviewers, a, last'.user, accept, now)
                       /\ new_application' =
                            IF accept /\ EnoughAccepted(application_reviewers', a)
                            THEN SetStatus(new_application, a, "under_review")
                            ELSE new_application
             [] last'.op = "sweep" ->
                  /\ last'.code = 0
                  /\ last'.updated = Cardinality(last'.body)
                  /\ last'.body = {x.id : x \in application_reviewers' \ application_reviewers}
                  /\ \A x \in application_reviewers' \ application_reviewers :
                       x.invite_status = "rejected"
             [] last'.op = "draft" ->
                  /\ last'.code = 200
                  /\ last'.body.id \notin DOMAIN new_application
                  /\ new_application'[last'.body.id] = "draft"
                  /\ application_data'[last'.body.id].resume_token_hash
                       = hashToken(last'.body.resumeToken)
             [] OTHER -> FALSE
      /\ last'.code >= 400 => last'.mail = "none"
    ]_vars

\* the second acceptance has put the application under review although the
\* notification of the managers failed
C22_Witness ==
  /\ last.op = "respond" /\ last.code = 200 /\ last.mail = "failed"
  /\ \E a \in Apps :
       /\ new_application[a] = "under_review"
       /\ \E x \in AcceptedRows(application_reviewers, a) : x.reviewer_id = last.user


(* ---------------------------------------------------------------------- *)
(* Store errors                                                           *)
(* ---------------------------------------------------------------------- *)

\* the call of a request for which the store returns { error }: none, the
\* write of the row the request is about, or the update of the status
StoreErrors == {"none", "write", "status"}

\* router.post("/:id/reviewer-respond") with a store that may fail: updateError
\* is answered with 500; the result of the update of the status is not read
RespondToInviteFailing(a, u, accept, failing) ==
  IF u = NoUser \/ failing = "none" THEN RespondToInvite(a, u, accept)
  ELSE IF failing = "write"
  THEN /\ last' = [Response("respond", 500) EXCEPT !.user = u]
       /\ UNCHANGED <<application_data, new_application, application_reviewers,
                      application_evaluations, user_profiles, now, inflight>>
  ELSE /\ application_reviewers' = RespondUpdate(application_reviewers, a, u, accept, now)
       /\ \E emailResult \in MailOutcomes \cup {"none"} :
            last' = Notified([Response("respond", 200) EXCEPT !.user = u], emailResult)
       /\ UNCHANGED <<application_data, new_application, application_evaluations,
                      user_profiles, now, inflight>>

\* router.put("/application/:applicationId") with a store that may fail: the
\* error of runUpsert is answered with 500; updateError of the update of the
\* status is logged
UpsertEvaluationFailing(a, u, scoresOk, score, failing) ==
  LET pre == EvaluationPrecheck(application_reviewers, a, u, scoresOk)
      found == EvaluationsOf(application_evaluations, a, u)
      existing == IF Cardinality(found) = 1 THEN found ELSE {}
      conflict == existing = {} /\ EvaluationUniqueViolation(application_evaluations, a, u)
  IN IF pre # 0 \/ conflict \/ failing = "none"
     THEN UpsertEvaluation(a, u, scoresOk, score)
     ELSE IF failing = "write"
     THEN /\ last' = Response("upsert", 500)
          /\ UNCHANGED <<application_data, new_application, application_reviewers,
                         application_evaluations, user_profiles, now, inflight>>
     ELSE /\ application_evaluations' =
               RunUpsert(application_evaluations, existing, a, u, score)
          /\ last' = [Response("upsert", 200) EXCEPT !.body = UpsertMessage(existing)]
          /\ UNCHANGED <<application_data, new_application, application_reviewers,
                         user_profiles, now, inflight>>

NextStore ==
  \/ \E a \in AppIds, r \in user_profiles : InviteReviewer(a, r)
  \/ \E a \in AppIds, u \in user_profiles, accept \in BOOLEAN, failing \in StoreErrors :
       RespondToInviteFailing(a, u, accept, failing)
  \/ \E a \in AppIds, u \in user_profiles, score \in Scores, failing \in StoreErrors :
       UpsertEvaluationFailing(a, u, TRUE, score, failing)

SpecStore == Init /\ [][NextStore]_vars

\* C23: a request whose required write fails is answered with 500 and
\* changes nothing, and a request whose update of Application.status fails
\* (to under_review in RespondToInvite, to evaluated in the upsert of an
\* evaluation) is not answered as a success.
C23_StoreErrorIsReported ==
  [][ \A a \in Apps, u \in user_profiles :
        /\ \A accept \in BOOLEAN :
             RespondToInviteFailing(a, u, accept, "write")
               => /\ last'.code = 500
                  /\ UNCHANGED <<new_application, application_reviewers>>
        /\ (RespondToInviteFailing(a, u, TRUE, "status")
              /\ EnoughAccepted(application_reviewers', a))
             => last'.code = 500
        /\ \A score \in Scores :
             /\ (UpsertEvaluationFailing(a, u, TRUE, score, "write")
                   /\ EvaluationPrecheck(application_reviewers, a, u, TRUE) = 0)
                  => /\ last'.code = 500
                     /\ UNCHANGED <<new_application, application_evaluations>>
             /\ (UpsertEvaluationFailing(a, u, TRUE, score, "status")
                   /\ EvaluationPrecheck(application_reviewers, a, u, TRUE) = 0
                   /\ CompletionCheck(new_application, application_reviewers,
                                       application_evaluations', a)[a] = "evaluated")
                  => last'.code = 500
    ]_vars


(* ---------------------------------------------------------------------- *)
(* Invitations racing with responses                                      *)
(* ---------------------------------------------------------------------- *)

InitRace ==
  /\ new_application = [a \in Apps |-> "pending"]
  /\ application_reviewers = {}
  /\ application_evaluations = {}
  /\ user_profiles = 1..NumRaceReviewers
  /\ now = 0
  /\ last = Response("none", 0)
  /\ application_data = [a \in Apps |-> SubmittedData]
  /\ inflight = [p \in Procs |-> Idle]

\* invite-reviewer one store call at a time, next to the responses of the
\* reviewers
NextRace ==
  \/ \E p \in Procs, a \in Apps, r \in user_profiles : InviteBegin(p, a, r)
  \/ \E p \in Procs : InviteSelectReviewer(p)
  \/ \E p \in Procs : InviteSelectExisting(p)
  \/ \E p \in Procs : InviteTrigger(p)
  \/ \E p \in Procs : InviteInsert(p)
  \/ \E a \in Apps, u \in user_profiles : RespondToInvite(a, u, TRUE)

SpecRace == InitRace /\ [][NextRace]_vars

\* the ids of the assignments of an application
AssignmentIds(rows, a) == {x.id : x \in {y \in rows : y.application_id = a}}

\* C24: an invitation that finds the application in a status other than
\* pending is refused and inserts nothing, and no step adds an assignment to
\* an application whose status is not pending.
C24_NoAssignmentAfterPending ==
  [][ \A a \in Apps :
        new_application[a] # "pending"
          => /\ AssignmentIds(application_reviewers', a)
                  \subseteq AssignmentIds(application_reviewers, a)
             /\ \A p \in Procs, r \in user_profiles :
                  InviteBegin(p, a, r) => last'.code = 400 /\ UNCHANGED inflight
    ]_vars


(* ---------------------------------------------------------------------- *)
(* POST /api/applications                                                 *)
(* ---------------------------------------------------------------------- *)

\* the values of the fields of a JSON body
JsUndefined == [type |-> "undefined"]
JsString(text) == [type |-> "string", text |-> text]
JsNumber(n) == [type |-> "number", n |-> n]
JsBoolean(b) == [type |-> "boolean", b |-> b]
JsArray(items) == [type |-> "array", items |-> items]

\* the NaN of parseInt, as a number no count is
CountNaN == -1

\* the strings that consist of white space
Whitespace == {"", " "}

\* String.prototype.trim
trim(text) == IF text \in Whitespace THEN "" ELSE text

\* !v
Falsy(v) ==
  \/ v.type = "undefined"
  \/ v.type = "string" /\ v.text = ""
  \/ v.type = "number" /\ v.n = 0
  \/ v.type = "boolean" /\ ~v.b

\* String(v).trim() === ""
BlankAsString(v) ==
  \/ v.type = "string" /\ trim(v.text) = ""
  \/ v.type = "array" /\ v.items = <<>>

\* JSON.parse of the texts a list is sent as, [] after the catch
JSONparse(text) ==
  IF text = "[]" THEN JsArray(<<>>)
  ELSE IF text = "[m]" THEN JsArray(<<"m">>)
  ELSE JsArray(<<>>)

\* the list a field holds, parsed when it came as a string
ParsedList(v) == IF v.type = "string" THEN JSONparse(v.text) ELSE v

\* parseInt of a count
parseInt(v) ==
  IF v.type = "number" THEN v.n
  ELSE IF v.type = "string" /\ v.text = "0" THEN 0
  ELSE IF v.type = "string" /\ v.text = "2" THEN 2
  ELSE CountNaN

\* requiredFields, seven of its twenty-eight entries in their order
requiredFields ==
  <<"email", "isIITM", "coFoundersCount", "mcaRegistered", "teamMembers",
    "hasProofOfConcept", "pitchVideoLink">>

\* the test of the loop over requiredFields
FieldMissing(body, field) ==
  IF field = "teamMembers"
  THEN LET teamMembersValue == ParsedList(body[field])
       IN teamMembersValue.type # "array" \/ Len(teamMembersValue.items) = 0
  ELSE Falsy(body[field]) \/ BlankAsString(body[field])

\* the positions of requiredFields whose test fails
MissingPositions(body) ==
  {k \in DOMAIN requiredFields : FieldMissing(body, requiredFields[k])}

\* the field the loop returns on
FirstMissing(body) ==
  requiredFields[CHOOSE k \in MissingPositions(body) :
                   \A j \in MissingPositions(body) : k <= j]

\* the columns of the row the handler inserts
SubmittedColumns(body) ==
  [email |-> body.email,
   is_iitm |-> body.isIITM,
   co_founders_count |-> parseInt(body.coFoundersCount),
   mca_registered |-> body.mcaRegistered,
   team_members |-> IF ParsedList(body.teamMembers).type = "array"
                    THEN ParsedList(body.teamMembers).items ELSE <<>>,
   has_proof_of_concept |-> body.hasProofOfConcept,
   pitch_video_link |-> body.pitchVideoLink]

\* the bodies of a submission
SubmitBodies ==
  [email : {JsString(" "), JsString("a@x")},
   isIITM : {JsString("Yes"), JsString("yes")},
   coFoundersCount : {JsString("2"), JsNumber(0)},
   mcaRegistered : {JsString("No"), JsUndefined},
   teamMembers : {JsArray(<<"m">>), JsArray(<<>>), JsString("[m]"), JsString("oops")},
   hasProofOfConcept : {JsString("Yes"), JsUndefined},
   pitchVideoLink : {JsString("v"), JsUndefined},
   status : {JsUndefined, JsString("approved")}]

\* a submission arrives; the handler has no await before its insert, so the
\* submissions are handled one after the other
SubmitReceive(p, body) ==
  /\ \A q \in Procs : inflight[q].pc = "idle"
  /\ Cardinality(DOMAIN new_application) < Cardinality(Apps) + NumSubmissions
  /\ inflight' = [inflight EXCEPT ![p] = [pc |-> "submit", body |-> body]]
  /\ UNCHANGED <<application_data, new_application, application_reviewers,
                 application_evaluations, user_profiles, now, last>>

\* router.post("/")
SubmitApplication(p) ==
  /\ inflight[p].pc = "submit"
  /\ LET body == inflight[p].body
         id == FreshApplicationId(new_application)
     IN IF MissingPositions(body) # {}
        THEN /\ last' = [Response("submit", 400) EXCEPT !.body = {FirstMissing(body)}]
             /\ UNCHANGED <<new_application, application_data>>
        ELSE /\ new_application' =
                  [i \in DOMAIN new_application \cup {id} |->
                     IF i = id THEN "pending" ELSE new_application[i]]
             /\ application_data' =
                  [i \in DOMAIN application_data \cup {id} |->
                     IF i = id
                     THEN [fields |-> SubmittedColumns(body),
                           resume_token_hash |-> NoHash,
                           resume_token_expiry |-> NoTime,
                           updated_at |-> NoTime]
                     ELSE application_data[i]]
             /\ last' = [Response("submit", 201)
                           EXCEPT !.body = [id |-> id, status |-> "pending"]]
  /\ inflight' = [inflight EXCEPT ![p] = Idle]
  /\ UNCHANGED <<application_reviewers, application_evaluations, user_profiles, now>>

NextSubmit ==
  \/ \E p \in Procs, body \in SubmitBodies : SubmitReceive(p, body)
  \/ \E p \in Procs : SubmitApplication(p)

SpecSubmit == Init /\ [][NextSubmit]_vars

\* a field that is present and not blank: it has a value, and a text is more
\* than white space
PresentAndNonBlank(v) ==
  /\ v.type # "undefined"
  /\ v.type = "string" => v.text \notin Whitespace

\* every field of the checklist is present and not blank, and the list of
\* team members has a member
ChecklistComplete(body) ==
  \A k \in DOMAIN requiredFields :
    IF requiredFields[k] = "teamMembers"
    THEN /\ ParsedList(body.teamMembers).type = "array"
         /\ Len(ParsedList(body.teamMembers).items) >= 1
    ELSE PresentAndNonBlank(body[requiredFields[k]])

\* the first field of the checklist that is absent or blank
FirstIncomplete(body) ==
  LET bad == {k \in DOMAIN requiredFields :
                IF requiredFields[k] = "teamMembers"
                THEN ~(/\ ParsedList(body.teamMembers).type = "array"
                       /\ Len(ParsedList(body.teamMembers).items) >= 1)
                ELSE ~PresentAndNonBlank(body[requiredFields[k]])}
  IN requiredFields[CHOOSE k \in bad : \A j \in bad : k <= j]

\* C25: a submission is accepted exactly when the checklist is complete; a
\* rejected one is answered 400 naming the first incomplete field of the
\* checklist and writes nothing; an accepted one is stored as a new row with
\* status pending, whatever status the body carries.
C25_SubmitAcceptsCompleteChecklists ==
  [][ \A p \in Procs :
        (inflight[p].pc = "submit" /\ inflight'[p].pc = "idle")
          => IF ChecklistComplete(inflight[p].body)
             THEN /\ last'.code = 201
                  /\ last'.body.id \notin DOMAIN new_application
                  /\ new_application'[last'.body.id] = "pending"
                  /\ last'.body.status = "pending"
             ELSE /\ last'.code = 400
                  /\ last'.body = {FirstIncomplete(inflight[p].body)}
                  /\ UNCHANGED <<new_application, application_data>>
    ]_vars


\* the columns that hold the answer to a yes/no question, and the two values
\* such an answer has
YesNoColumns == {"is_iitm", "mca_registered", "has_proof_of_concept"}
YesNoValues == {JsString("Yes"), JsString("No")}

\* C26: every yes/no column of a row stored by SubmitApplication holds one
\* of the two canonical values, whatever the body carried.
C26_SubmitNormalizesYesNo ==
  \A i \in DOMAIN application_data \ Apps :
    \A c \in YesNoColumns : application_data[i].fields[c] \in YesNoValues


(* ---------------------------------------------------------------------- *)
(* Three reviewers of one application                                     *)
(* ---------------------------------------------------------------------- *)

\* invitations, responses and evaluations of three reviewers, every request
\* run to completion
NextReview ==
  \/ \E a \in Apps, r \in user_profiles : InviteReviewer(a, r)
  \/ \E a \in Apps, u \in user_profiles, accept \in BOOLEAN : RespondToInvite(a, u, accept)
  \/ \E a \in Apps, u \in user_profiles, score \in Scores :
       UpsertEvaluation(a, u, TRUE, score)

SpecReview == InitRace /\ [][NextReview]_vars

\* C27: a step that marks an application evaluated leaves no reviewer whose
\* assignment is accepted without an evaluation of the application.
C27_EvaluatedOnlyWhenAllAcceptedSubmitted ==
  [][ \A a \in Apps :
        (new_application[a] # "evaluated" /\ new_application'[a] = "evaluated")
          => \A x \in AcceptedRows(application_reviewers', a) :
               EvaluationsOf(application_evaluations', a, x.reviewer_id) # {}
    ]_vars


\* the place of a status in the lifecycle; a decision of a manager is final
StatusRank(s) ==
  IF s = "draft" THEN 0
  ELSE IF s = "pending" THEN 1
  ELSE IF s = "under_review" THEN 2
  ELSE IF s = "evaluated" THEN 3
  ELSE 4

\* C28: no step moves the status of an application backward in the order
\* pending, under_review, evaluated, decided; in particular an evaluated
\* application is never set back to under_review.
C28_StatusNeverMovesBackward ==
  [][ \A a \in Apps : StatusRank(new_application'[a]) >= StatusRank(new_application[a]) ]_vars


\* C29: a SaveDraft that names an existing draft leaves the digest of its
\* token, its expiry and its status as they were; no step changes the digest
\* or the expiry of a row, the expiry of a created draft is the time of its
\* creation plus 30 days, and a draft row stays a draft.
C29_DraftUpdateKeepsTokenAndStatus ==
  [][ /\ \A i \in DOMAIN application_data :
           /\ application_data'[i].resume_token_hash = application_data[i].resume_token_hash
           /\ application_data'[i].resume_token_expiry
                = application_data[i].resume_token_expiry
           /\ new_application[i] = "draft" => new_application'[i] = "draft"
      /\ \A i \in DOMAIN application_data' \ DOMAIN application_data :
           /\ application_data'[i].resume_token_expiry = now + RESUME_TOKEN_EXPIRY_DAYS
           /\ new_application'[i] = "draft"
      /\ (last'.op = "draft" /\ last'.code = 200 /\ ~last'.body.isNew)
           => /\ new_application[last'.body.id] = "draft"
              /\ application_data'[last'.body.id].updated_at = now
    ]_vars

\* a draft that was updated on a later day than it was created has just been
\* resumed with its token
C29_Witness ==
  /\ last.op = "resume" /\ last.code = 200
  /\ last.body.updated_at # NoTime
  /\ last.body.status = "draft"
  /\ application_data[last.body.id].resume_token_expiry
       < last.body.updated_at + RESUME_TOKEN_EXPIRY_DAYS


(* ---------------------------------------------------------------------- *)
(* POST /api/applications/:id/reviewer-respond, one store call at a time  *)
(* ---------------------------------------------------------------------- *)

\* a handler that counts the accepted rows before it records its response
RespondSteps_CountFirst == <<"count", "update", "status">>

\* the store calls of an accepting response in the order of their awaits:
\* the update of the assignment, the select of the accepted rows, the update
\* of the status
RespondSteps == <<"update", "count", "status">>

\* a declining response only updates the assignment
StepsOf(accept) ==
  IF accept THEN RespondSteps ELSE <<"update">>

\* the token is verified and the request reaches its first store call
RespondReceive(p, a, u, accept) ==
  /\ inflight[p].pc = "idle"
  /\ inflight' = [inflight EXCEPT ![p] =
                    [pc |-> "respond", step |-> 1, app |-> a, reviewer |-> u,
                     accept |-> accept, enough |-> FALSE]]
  /\ UNCHANGED <<application_data, new_application, application_reviewers,
                 application_evaluations, user_profiles, now, last>>

\* the next store call of the request; after the last one the managers are
\* notified and the request is answered
RespondStep(p) ==
  /\ inflight[p].pc = "respond"
  /\ LET r == inflight[p]
         name == StepsOf(r.accept)[r.step]
     IN /\ application_reviewers' =
             IF name = "update"
             THEN RespondUpdate(application_reviewers, r.app, r.reviewer, r.accept, now)
             ELSE application_reviewers
        /\ new_application' =
             IF name = "status" /\ r.enough
             THEN SetStatus(new_application, r.app, "under_review")
             ELSE new_application
        /\ IF r.step < Len(StepsOf(r.accept))
           THEN /\ inflight' =
                     [inflight EXCEPT
                        ![p].step = r.step + 1,
                        ![p].enough = IF name = "count"
                                      THEN EnoughAccepted(application_reviewers, r.app)
                                      ELSE r.enough]
                /\ UNCHANGED last
           ELSE /\ inflight' = [inflight EXCEPT ![p] = Idle]
                /\ \E emailResult \in MailOutcomes \cup {"none"} :
                     last' = Notified([Response("respond", 200) EXCEPT !.user = r.reviewer],
                                      emailResult)
  /\ UNCHANGED <<application_data, application_evaluations, user_profiles, now>>

NextRespond ==
  \/ \E a \in Apps, r \in user_profiles : InviteReviewer(a, r)
  \/ \E p \in Procs, a \in Apps, u \in user_profiles, accept \in BOOLEAN :
       RespondReceive(p, a, u, accept)
  \/ \E p \in Procs : RespondStep(p)

SpecRespond == Init /\ [][NextRespond]_vars

\* C30: when no response is in flight and two reviewers of an application
\* have their assignment accepted, the application is under review, however
\* the store calls of their responses were interleaved.
C30_ConcurrentAcceptancesReachUnderReview ==
  \A a \in Apps :
    (/\ \A p \in Procs : inflight[p].pc = "idle"
     /\ Cardinality(AcceptedRows(application_reviewers, a)) >= AcceptedThreshold)
      => new_application[a] = "under_review"

\* the responses of two reviewers that accepted have been answered and the
\* application is under review
C30_Witness ==
  /\ \A p \in Procs : inflight[p].pc = "idle"
  /\ last.op = "respond" /\ last.code = 200
  /\ \A a \in Apps :
       /\ Cardinality(AcceptedRows(application_reviewers, a)) = AcceptedThreshold
       /\ new_application[a] = "under_review"

====
